---- MODULE Spec2Model ----
(***************************************************************************)
(* The consolidation engine of fd (src/fd.py): bls_cew_consolidate,        *)
(* bls_ce_consolidate, bls_sm_consolidate and epa_ucmr_consolidate, with   *)
(* convert_dtypes and get_bls_dtypes, and the pandas operations they call  *)
(* (read_table / read_csv, merge how='left', astype, rename, to_numeric,   *)
(* to_csv) modelled by what they do on small tables.                       *)
(*                                                                         *)
(* A table is [cols, dtype, rows, src]: cols the column names in order,    *)
(* dtype the dtype of each column, rows the rows, each the sequence of its *)
(* cells in column order, and src, for each row, the place it was read     *)
(* from (fragment number, row number): src is no column, no operation      *)
(* reads it, and it is there to say where an output row came from.         *)
(* A file on disk is a raw table [exists, cols, rows], every cell a text   *)
(* ("" is a blank field).                                                  *)
(***************************************************************************)
EXTENDS Integers, Sequences, FiniteSets, TLC

(***************************************************************************)
(* Bounds of the model.                                                    *)
(***************************************************************************)
\* rows of fact data read in one run, over all its fragments
MaxRows == 4
\* rows of one fragment (chunksize=10000 in the source, scaled down)
ChunkSize == 2
\* archive members bls_cew_consolidate reads in one run
MaxMembers == 2

(***************************************************************************)
(* Cells.  One record shape for every value, so that any two cells can be  *)
(* compared.  A float is held in thousandths.                              *)
(***************************************************************************)
NaN == [k |-> "nan", n |-> 0, s |-> ""]
IntCell(i) == [k |-> "int", n |-> i, s |-> ""]
FltCell(m) == [k |-> "flt", n |-> m, s |-> ""]
StrCell(t) == [k |-> "str", n |-> 0, s |-> t]

Min(a, b) == IF a <= b THEN a ELSE b

Range(f) == {f[i] : i \in DOMAIN f}

\* the texts the parsers of read_table / float() / to_numeric take for
\* integers, with their values
IntTexts ==
  [t \in {"1", "12", "39", "2017", "1990", "01000"} |->
     CASE t = "1" -> 1 [] t = "12" -> 12 [] t = "39" -> 39 [] t = "2017" -> 2017
       [] t = "1990" -> 1990 [] t = "01000" -> 1000]

\* the texts they take for non-integral numbers, in thousandths
FloatTexts ==
  [t \in {"1.5", "0.125", "2.25"} |->
     CASE t = "1.5" -> 1500 [] t = "0.125" -> 125 [] t = "2.25" -> 2250]

IsIntText(t) == t \in DOMAIN IntTexts
IsNumText(t) == t \in DOMAIN IntTexts \/ t \in DOMAIN FloatTexts
NumValue(t) == IF IsIntText(t) THEN IntTexts[t] * 1000 ELSE FloatTexts[t]

\* numpy's int64 -> int8 cast: the low 8 bits, read as a signed byte
Wrap8(i) == ((i + 128) % 256) - 128

\* '%.2f' % x for x >= 0 held in thousandths (ties go to the even digit: the
\* model's floats are binary fractions, exact in a double)
Digits2(h) == (IF h % 100 < 10 THEN "0" ELSE "") \o ToString(h % 100)
Round2(m) ==
  LET q == m \div 10
      r == m % 10
  IN IF r > 5 \/ (r = 5 /\ q % 2 = 1) THEN q + 1 ELSE q
Format2f(m) == ToString(Round2(m) \div 100) \o "." \o Digits2(Round2(m))

\* str(x) of a float64 held in thousandths (repr keeps what is needed)
Digits3(f) ==
  IF f % 100 = 0 THEN ToString(f \div 100)
  ELSE IF f % 10 = 0
       THEN (IF f < 100 THEN "0" ELSE "") \o ToString(f \div 10)
       ELSE (IF f < 10 THEN "00" ELSE IF f < 100 THEN "0" ELSE "") \o ToString(f)
FloatRepr(m) == ToString(m \div 1000) \o "." \o Digits3(m % 1000)

(***************************************************************************)
(* Tables.                                                                 *)
(***************************************************************************)
ColSet(t) == Range(t.cols)

Ok(t) == [ok |-> TRUE, err |-> "", df |-> t]
EmptyTable == [cols |-> <<>>, dtype |-> <<>>, rows |-> <<>>, src |-> <<>>]
Err(e) == [ok |-> FALSE, err |-> e, df |-> EmptyTable]

RECURSIVE Concat(_)
Concat(ss) == IF ss = <<>> THEN <<>> ELSE Head(ss) \o Concat(Tail(ss))

RECURSIVE SumSeq(_)
SumSeq(ns) == IF ns = <<>> THEN 0 ELSE Head(ns) + SumSeq(Tail(ns))

Indices(n) == [i \in 1..n |-> i]

HasCol(t, c) == c \in ColSet(t)
\* the position of column c (the first one of that name)
Pos(t, c) == CHOOSE i \in DOMAIN t.cols : t.cols[i] = c /\ \A j \in 1..(i - 1) : t.cols[j] # c

(***************************************************************************)
(* pd.read_table / pd.read_csv of one file, or of one chunk of it.  raw is *)
(* [exists, cols, rows]; over gives the dtype= argument (a function from   *)
(* column names to "str", "int" or "float"; names the file does not have   *)
(* are ignored).  A column with no dtype given is inferred from its cells. *)
(***************************************************************************)
InferDtype(texts) ==
  IF texts = <<>> THEN "object"
  ELSE IF \A i \in DOMAIN texts : IsIntText(texts[i]) THEN "int64"
  ELSE IF \A i \in DOMAIN texts : IsNumText(texts[i]) \/ texts[i] = "" THEN "float64"
  ELSE "object"

ReadDtype(raw, over, i) ==
  LET c == raw.cols[i]
  IN IF c \in DOMAIN over
     THEN CASE over[c] = "str" -> "object"
            [] over[c] = "int" -> "int64"
            [] over[c] = "float" -> "float64"
     ELSE InferDtype([r \in DOMAIN raw.rows |-> raw.rows[r][i]])

ReadCell(text, dtype) ==
  CASE dtype = "int64" -> IntCell(IntTexts[text])
    [] dtype = "float64" -> IF text = "" THEN NaN ELSE FltCell(NumValue(text))
    [] OTHER -> IF text = "" THEN NaN ELSE StrCell(text)

\* a cell the requested dtype cannot hold: the parser raises ValueError
ReadFits(text, dtype) ==
  CASE dtype = "int64" -> IsIntText(text)
    [] dtype = "float64" -> IsNumText(text) \/ text = ""
    [] OTHER -> TRUE

ReadTable(raw, over, frag) ==
  IF ~raw.exists THEN Err("FileNotFoundError")
  ELSE LET dt == [i \in DOMAIN raw.cols |-> ReadDtype(raw, over, i)]
       IN IF \E r \in DOMAIN raw.rows : \E i \in DOMAIN raw.cols :
                ~ReadFits(raw.rows[r][i], dt[i])
          THEN Err("ValueError")
          ELSE Ok([cols |-> raw.cols,
                   dtype |-> dt,
                   rows |-> [r \in DOMAIN raw.rows |->
                               [i \in DOMAIN raw.cols |-> ReadCell(raw.rows[r][i], dt[i])]],
                   src |-> [r \in DOMAIN raw.rows |-> <<frag, r>>]])

\* a rename with the two names of its mapping exchanged
RenameReversed(t, old, new) ==
  [t EXCEPT !.cols = [i \in DOMAIN t.cols |-> IF t.cols[i] = new THEN old ELSE t.cols[i]]]

(***************************************************************************)
(* DataFrame.rename(columns={old: new}, inplace=True): a name the frame    *)
(* does not have is ignored (rename raises no KeyError).                   *)
(***************************************************************************)
Rename(t, old, new) ==
  [t EXCEPT !.cols = [i \in DOMAIN t.cols |-> IF t.cols[i] = old THEN new ELSE t.cols[i]]]

\* df.columns = names: ValueError unless there are as many names as columns
SetColumns(t, names) ==
  IF Len(names) # Len(t.cols) THEN Err("ValueError") ELSE Ok([t EXCEPT !.cols = names])

(***************************************************************************)
(* pd.merge(left, right, how='left', on=keys).  KeyError when a key is     *)
(* not a column of both.  The rows are those of left, in left's order;     *)
(* a left row gets one output row per right row with equal keys (in        *)
(* right's order), or one row with missing right cells when there is none. *)
(* A column of both sides that is no key is suffixed _x / _y.  A right     *)
(* integer column becomes float64 when some left row has no match.         *)
(* src (where the left row was read from) is carried along: it is not a    *)
(* column and nothing reads it.                                            *)
(***************************************************************************)
Suffixed(c, other, keys, suffix) ==
  IF HasCol(other, c) /\ c \notin Range(keys) THEN c \o suffix ELSE c

RightKept(right, keys) ==
  LET Keep(i) == right.cols[i] \notin Range(keys)
  IN SelectSeq(Indices(Len(right.cols)), Keep)

MatchesOf(lrow, left, right, keys) ==
  LET Same(j) == \A k \in Range(keys) :
                    right.rows[j][Pos(right, k)] = lrow[Pos(left, k)]
  IN SelectSeq(Indices(Len(right.rows)), Same)

UpCell(cell) == IF cell.k = "int" THEN FltCell(cell.n * 1000) ELSE cell
UpDtype(d) == IF d \in {"int64", "int8"} THEN "float64" ELSE d

\* the rows of a right join, in the order of right: what how='right' gives
RightOrderPairs(left, right, keys) ==
  Concat([j \in DOMAIN right.rows |->
    LET Hit(i) == \A k \in Range(keys) :
                    right.rows[j][Pos(right, k)] = left.rows[i][Pos(left, k)]
        m == SelectSeq(Indices(Len(left.rows)), Hit)
    IN [q \in DOMAIN m |-> <<m[q], j>>]])
  \o Concat([i \in DOMAIN left.rows |->
       IF MatchesOf(left.rows[i], left, right, keys) = <<>> THEN << <<i, 0>> >> ELSE <<>>])

\* the rows of an inner join: what how='inner' gives
InnerPairs(left, right, keys) ==
  Concat([i \in DOMAIN left.rows |->
    LET m == MatchesOf(left.rows[i], left, right, keys)
    IN [q \in DOMAIN m |-> <<i, m[q]>>]])

\* how='left': the output rows as pairs <<left row, right row>>, 0 for no
\* right row, in the order of left
JoinPairs(left, right, keys) ==
  Concat([i \in DOMAIN left.rows |->
    LET m == MatchesOf(left.rows[i], left, right, keys)
    IN IF m = <<>> THEN << <<i, 0>> >> ELSE [q \in DOMAIN m |-> <<i, m[q]>>]])

\* the joined frame, given the right columns kept and the pairs of rows
JoinFrame(left, right, keys, kept, pairs) ==
  LET anyMiss == \E p \in DOMAIN pairs : pairs[p][2] = 0
      RCell(j, c) == IF j = 0 THEN NaN
                     ELSE IF anyMiss THEN UpCell(right.rows[j][c])
                     ELSE right.rows[j][c]
  IN Ok([cols |-> [i \in DOMAIN left.cols |-> Suffixed(left.cols[i], right, keys, "_x")]
                  \o [p \in DOMAIN kept |-> Suffixed(right.cols[kept[p]], left, keys, "_y")],
         dtype |-> left.dtype
                   \o [p \in DOMAIN kept |->
                         IF anyMiss THEN UpDtype(right.dtype[kept[p]])
                         ELSE right.dtype[kept[p]]],
         rows |-> [p \in DOMAIN pairs |->
                     left.rows[pairs[p][1]]
                     \o [c \in DOMAIN kept |-> RCell(pairs[p][2], kept[c])]],
         src |-> [p \in DOMAIN pairs |-> left.src[pairs[p][1]]]])

MergeFrames(left, right, keys) ==
  IF \E k \in Range(keys) : ~HasCol(left, k) \/ ~HasCol(right, k)
  THEN Err("KeyError")
  ELSE CHOOSE m \in {JoinFrame(left, right, keys, kept, pairs) :
                       kept \in {RightKept(right, keys)},
                       pairs \in {JoinPairs(left, right, keys)}} : TRUE

\* pd.merge(left, right, how='left', on=keys), of the values of left and right
Merge(left, right, keys) ==
  CHOOSE m \in {MergeFrames(l, r, keys) : l \in {left}, r \in {right}} : TRUE

(***************************************************************************)
(* Series.astype(to) on one cell of a column of dtype from.  BadCell is    *)
(* the cast raising ValueError.                                            *)
(*   int8:    an integer keeps its low 8 bits (numpy casts without a range *)
(*            check); a missing value cannot be cast; a finite float is    *)
(*            truncated, and outside -128..127 the C cast is undefined: ub *)
(*            names the outcome the build gives ("wrap" or "min"); a text  *)
(*            is parsed.                                                   *)
(*   float32: a number keeps its value (the model's floats are exact in    *)
(*            32 bits); a text is parsed by float().                       *)
(*   str:     str(x); a missing value becomes the text "nan".              *)
(***************************************************************************)
BadCell == [k |-> "bad", n |-> 0, s |-> ""]

UBOutcomes == {"wrap", "min"}

TruncFloat(m) == IF m >= 0 THEN m \div 1000 ELSE -((-m) \div 1000)

FloatToInt8(m, ub) ==
  LET i == TruncFloat(m)
  IN IF i \in -128..127 THEN i ELSE IF ub = "wrap" THEN Wrap8(i) ELSE -128

AsTypeCell(cell, to, ub) ==
  CASE to = "int8" ->
         CASE cell.k = "int" -> IntCell(Wrap8(cell.n))
           [] cell.k = "flt" -> IntCell(FloatToInt8(cell.n, ub))
           [] cell.k = "str" -> IF IsIntText(cell.s) THEN IntCell(Wrap8(IntTexts[cell.s]))
                                ELSE BadCell
           [] OTHER -> BadCell
    [] to = "float32" ->
         CASE cell.k = "int" -> FltCell(cell.n * 1000)
           [] cell.k = "str" -> IF IsNumText(cell.s) THEN FltCell(NumValue(cell.s))
                                ELSE BadCell
           [] OTHER -> cell
    [] OTHER ->
         CASE cell.k = "int" -> StrCell(ToString(cell.n))
           [] cell.k = "flt" -> StrCell(FloatRepr(cell.n))
           [] cell.k = "nan" -> StrCell("nan")
           [] OTHER -> cell

\* astype('str') leaves the column with dtype object
AsTypeDtype(to) == IF to = "str" THEN "object" ELSE to

\* a conversion whose result is not assigned back to df
ConvertGroupDiscard(df, names, to, ub) ==
  IF names # <<>> /\ \E c \in Range(names) : ~HasCol(df, c) THEN Err("KeyError")
  ELSE Ok(df)

\* a conversion that takes an empty list of names for every column
ConvertGroupAllWhenEmpty(df, names, to, ub) ==
  IF \E c \in Range(names) : ~HasCol(df, c) THEN Err("KeyError")
  ELSE LET hit(i) == names = <<>> \/ df.cols[i] \in Range(names)
           rows == [r \in DOMAIN df.rows |->
                      [i \in DOMAIN df.cols |->
                         IF hit(i) THEN AsTypeCell(df.rows[r][i], to, ub)
                         ELSE df.rows[r][i]]]
       IN IF \E r \in DOMAIN rows : \E i \in DOMAIN df.cols : rows[r][i] = BadCell
          THEN Err("ValueError")
          ELSE Ok([df EXCEPT !.rows = rows,
                             !.dtype = [i \in DOMAIN df.cols |->
                                          IF hit(i) THEN AsTypeDtype(to) ELSE df.dtype[i]]])

(***************************************************************************)
(* One line of convert_dtypes:  df[names] = df[names].astype(to) if names  *)
(* else None.  With names empty the right side is None and df[[]] = None   *)
(* assigns to no column.  df[names] raises KeyError when df lacks one of   *)
(* the names.                                                              *)
(***************************************************************************)
ConvertGroup(df, names, to, ub) ==
  IF names = <<>> THEN Ok(df)
  ELSE IF \E c \in Range(names) : ~HasCol(df, c) THEN Err("KeyError")
  ELSE LET hit(i) == df.cols[i] \in Range(names)
           rows == [r \in DOMAIN df.rows |->
                      [i \in DOMAIN df.cols |->
                         IF hit(i) THEN AsTypeCell(df.rows[r][i], to, ub)
                         ELSE df.rows[r][i]]]
       IN IF \E r \in DOMAIN rows : \E i \in DOMAIN df.cols : rows[r][i] = BadCell
          THEN Err("ValueError")
          ELSE Ok([df EXCEPT !.rows = rows,
                             !.dtype = [i \in DOMAIN df.cols |->
                                          IF hit(i) THEN AsTypeDtype(to) ELSE df.dtype[i]]])

(***************************************************************************)
(* chunk.value = pd.to_numeric(chunk.value, errors='coerce'): a text that   *)
(* is no number becomes missing; AttributeError without a column value.    *)
(***************************************************************************)
ToNumericCell(cell) ==
  IF cell.k = "str"
  THEN IF IsIntText(cell.s) THEN IntCell(IntTexts[cell.s])
       ELSE IF IsNumText(cell.s) THEN FltCell(NumValue(cell.s))
       ELSE NaN
  ELSE cell

\* pd.to_numeric(chunk.value) without errors='coerce': a text that is no
\* number raises ValueError
ToNumericStrict(df, c) ==
  IF ~HasCol(df, c) THEN Err("AttributeError")
  ELSE IF \E r \in DOMAIN df.rows :
            LET cell == df.rows[r][Pos(df, c)] IN cell.k = "str" /\ ~IsNumText(cell.s)
       THEN Err("ValueError")
       ELSE Ok(df)

ToNumeric(df, c) ==
  IF ~HasCol(df, c) THEN Err("AttributeError")
  ELSE LET p == Pos(df, c)
           cells == [r \in DOMAIN df.rows |-> ToNumericCell(df.rows[r][p])]
           allInt == \A r \in DOMAIN cells : cells[r].k = "int"
           dt == IF df.dtype[p] # "object" THEN df.dtype[p]
                 ELSE IF allInt /\ cells # <<>> THEN "int64" ELSE "float64"
       IN Ok([df EXCEPT !.rows = [r \in DOMAIN df.rows |->
                                    [df.rows[r] EXCEPT ![p] =
                                       IF dt = "float64" THEN UpCell(cells[r]) ELSE cells[r]]],
                        !.dtype = [df.dtype EXCEPT ![p] = dt]])

(***************************************************************************)
(* df.to_csv(f, header=header, index=False, float_format='%.2f'): the      *)
(* lines written, the header line (the column names) first when header is  *)
(* set.  A line is [kind, cells, src]; src of a row line is the row's.     *)
(***************************************************************************)
CsvCell(cell) ==
  CASE cell.k = "int" -> ToString(cell.n)
    [] cell.k = "flt" -> Format2f(cell.n)
    [] cell.k = "nan" -> ""
    [] OTHER -> cell.s

ToCsv(df, header, frag) ==
  (IF header THEN << [kind |-> "header", cells |-> df.cols, src |-> <<frag, 0>>] >>
   ELSE <<>>)
  \o [r \in DOMAIN df.rows |->
        [kind |-> "row",
         cells |-> [i \in DOMAIN df.cols |-> CsvCell(df.rows[r][i])],
         src |-> df.src[r]]]

(***************************************************************************)
(* The schemas (the 'dtype' dictionaries of bls_cew, bls_ce, bls_sm), as   *)
(* sequences of <<column, type>> in declaration order.  They are cut to    *)
(* the columns of the files modelled below; the entries left out name      *)
(* columns of the same three types.                                        *)
(***************************************************************************)
bls_cew_dtype ==
  << <<"area_fips", "str">>, <<"qtr", "float">>,
     <<"oty_taxable_qtrly_wages_chg", "float">>,
     <<"oty_taxable_qtrly_wages_pct", "float">> >>

bls_ce_dtype ==
  << <<"data_type_text", "str">>, <<"industry_name", "str">>,
     <<"period_name", "str">>, <<"supersector_name", "str">>,
     <<"series_id", "str">>, <<"industry_code", "str">>, <<"period", "str">>,
     <<"footnote_codes", "str">>, <<"supersector_code", "str">>,
     <<"data_type_code", "str">>, <<"seasonal", "str">>,
     <<"footnote_code_series", "str">>, <<"season_text", "str">>,
     <<"period_abbr", "str">>, <<"year", "int">>, <<"value", "float">>,
     <<"begin_year", "int">> >>

bls_sm_dtype ==
  << <<"area_code", "str">>, <<"area_name", "str">>, <<"benchmark_year", "int">>,
     <<"state_code", "str">>, <<"state_name", "str">>, <<"data_type_text", "str">>,
     <<"industry_name", "str">>, <<"series_id", "str">>,
     <<"supersector_code", "str">>, <<"industry_code", "str">>,
     <<"period", "str">>, <<"footnote_codes", "str">>, <<"data_type_code", "str">>,
     <<"year", "int">>, <<"value", "float">> >>

Schema(d) ==
  CASE d = "bls_cew" -> bls_cew_dtype
    [] d = "bls_ce" -> bls_ce_dtype
    [] d = "bls_sm" -> bls_sm_dtype
    [] OTHER -> <<>>

\* the names of one type, each put at the front of the list (insert(0, k))
NamesOfTypeReversed(schema, type) ==
  LET Is(e) == e[2] = type
      sel == SelectSeq(schema, Is)
  IN [i \in DOMAIN sel |-> sel[Len(sel) + 1 - i][1]]

\* get_bls_dtypes: [ints, flts, strs], each in the order of the dictionary
NamesOfType(schema, type) ==
  LET Is(e) == e[2] = type
      sel == SelectSeq(schema, Is)
  IN [i \in DOMAIN sel |-> sel[i][1]]

get_bls_dtypes(schema) ==
  << NamesOfType(schema, "int"), NamesOfType(schema, "float"), NamesOfType(schema, "str") >>

\* get_dtypes: the same three comprehensions over agency_dict['dtype'].items()
get_dtypes(schema) ==
  << NamesOfType(schema, "int"), NamesOfType(schema, "float"), NamesOfType(schema, "str") >>

\* the schemas get_dtypes and get_bls_dtypes are called with on their own:
\* every dictionary of at most MaxCols of these columns, in every order,
\* each declared int, float or str
MaxCols == 3

SchemaNames ==
  LET names == <<"series_id", "value", "period", "year", "footnote_codes">>
  IN {names[i] : i \in 1..Min(MaxCols, Len(names))}

TypeTags == <<"int", "float", "str">>

Schemas ==
  UNION { {s \in [1..n -> SchemaNames \X Range(TypeTags)] :
             \A i, j \in 1..n : i # j => s[i][1] # s[j][1]} : n \in 0..MaxCols }

(***************************************************************************)
(* The downloaded files of one run.  Scenarios(d) names the directories    *)
(* the model runs on; Disk(d, sc) gives each file's content:               *)
(*   ok            every reference table has every code, once              *)
(*   partial       the series table lacks series S2                        *)
(*   dup           the series table has series S1 twice                    *)
(*   empty_ref     the first lookup table has a header and no row          *)
(*   ref_nokey     the first lookup table lacks its join-key column        *)
(*   series_nokey  the series table lacks the column series_id             *)
(*   ref_missing   the first lookup table's file is not there              *)
(* The integer columns of the reference files have no blank field.         *)
(***************************************************************************)
Raw(cols, rows) == [exists |-> TRUE, cols |-> cols, rows |-> rows]
Missing == [exists |-> FALSE, cols |-> <<>>, rows |-> <<>>]

Scenarios(d) ==
  IF d = "bls_cew" THEN {"ok"}
  ELSE IF d = "epa_ucmr" THEN {"ok", "dup", "ref_nokey", "ref_missing"}
  ELSE {"ok", "partial", "dup", "empty_ref", "ref_nokey", "series_nokey", "ref_missing"}

\* the first lookup table of a dataset (ce.datatype, sm.area), by scenario
FirstLookup(sc, key, text, rows) ==
  CASE sc = "empty_ref" -> Raw(<<key, text>>, <<>>)
    [] sc = "ref_nokey" -> Raw(<<"code", text>>, rows)
    [] sc = "ref_missing" -> Missing
    [] OTHER -> Raw(<<key, text>>, rows)

SeriesRows(sc, s1, s2, s1again) ==
  CASE sc = "partial" -> << s1 >>
    [] sc = "dup" -> << s1, s2, s1again >>
    [] OTHER -> << s1, s2 >>

SeriesKey(sc) == IF sc = "series_nokey" THEN "series" ELSE "series_id"

CeDisk(sc) ==
  [f \in {"ce.series", "ce.datatype", "ce.industry", "ce.seasonal",
          "ce.supersector", "ce.period"} |->
     CASE f = "ce.series" ->
            Raw(<<SeriesKey(sc), "supersector_code", "industry_code", "data_type_code",
                  "seasonal", "footnote_codes", "begin_year">>,
                SeriesRows(sc, <<"S1", "00", "00", "01", "S", "", "39">>,
                               <<"S2", "00", "00", "01", "U", "", "1990">>,
                               <<"S1", "00", "00", "01", "S", "", "12">>))
       [] f = "ce.datatype" ->
            FirstLookup(sc, "data_type_code", "data_type_text",
                        << <<"01", "ALL EMPLOYEES">> >>)
       [] f = "ce.industry" ->
            Raw(<<"industry_code", "industry_name">>, << <<"00", "Total nonfarm">> >>)
       [] f = "ce.seasonal" ->
            Raw(<<"seasonal_code", "seasonal_text">>,
                << <<"S", "Seasonally Adjusted">>, <<"U", "Not Seasonally Adjusted">> >>)
       [] f = "ce.supersector" ->
            Raw(<<"supersector_code", "supersector_name">>, << <<"00", "Total nonfarm">> >>)
       [] f = "ce.period" ->
            Raw(<<"period", "period_abbr", "period_name">>,
                << <<"M01", "JAN", "January">>, <<"M02", "FEB", "February">> >>)]

SmDisk(sc) ==
  [f \in {"sm.series", "sm.area", "sm.supersector", "sm.data_type",
          "sm.industry", "sm.state"} |->
     CASE f = "sm.series" ->
            Raw(<<SeriesKey(sc), "state_code", "area_code", "supersector_code",
                  "industry_code", "data_type_code", "benchmark_year", "footnote_codes">>,
                SeriesRows(sc, <<"S1", "01", "00", "00", "00", "01", "39", "">>,
                               <<"S2", "01", "00", "00", "00", "01", "2017", "">>,
                               <<"S1", "01", "00", "00", "00", "01", "12", "">>))
       [] f = "sm.area" ->
            FirstLookup(sc, "area_code", "area_name", << <<"00", "Statewide">> >>)
       [] f = "sm.supersector" ->
            Raw(<<"supersector_code", "supersector_name">>, << <<"00", "Total Nonfarm">> >>)
       [] f = "sm.data_type" ->
            Raw(<<"data_type_code", "data_type_text">>, << <<"01", "All Employees">> >>)
       [] f = "sm.industry" ->
            Raw(<<"industry_code", "industry_name">>, << <<"00", "Total Nonfarm">> >>)
       [] f = "sm.state" ->
            Raw(<<"state_code", "state_name">>, << <<"01", "Alabama">> >>)]

StrOver(names) == [c \in names |-> "str"]

(***************************************************************************)
(* The reference tables of a run, as the code builds them before it opens  *)
(* data.csv: each lookup table is read and left-joined into series, in the *)
(* order of the source.  The result is [ok, err, refs], refs the tables a  *)
(* fragment is joined with, in order, each with its key.                   *)
(***************************************************************************)
\* pd.read_table of a lookup file and, with names given, df.columns = names
LoadRef(disk, file, over, names) ==
  CHOOSE ref \in {IF t.ok /\ names # <<>> THEN SetColumns(t.df, names) ELSE t :
                    t \in {ReadTable(disk[file], over, 0)}} : TRUE

\* pd.merge(acc, t, how='left', on=keys), after both were read
JoinRefOn(acc, t, keys) ==
  CHOOSE m \in {IF ~a.ok THEN a ELSE IF ~b.ok THEN b ELSE Merge(a.df, b.df, keys) :
                  a \in {acc}, b \in {t}} : TRUE

\* series = pd.merge(series, t, how='left', on=key)
JoinRef(acc, t, key) == JoinRefOn(acc, t, <<key>>)

LoadSeries(disk, file, over) ==
  CHOOSE series \in {IF t.ok THEN Ok(Rename(t.df, "footnote_codes", "footnote_code_series"))
                       ELSE t :
                       t \in {ReadTable(disk[file], over, 0)}} : TRUE

RefsOf(series, rest) ==
  IF ~series.ok THEN [ok |-> FALSE, err |-> series.err, refs |-> <<>>]
  ELSE IF \E i \in DOMAIN rest : ~rest[i].t.ok
       THEN LET i == CHOOSE j \in DOMAIN rest :
                       ~rest[j].t.ok /\ \A h \in 1..(j - 1) : rest[h].t.ok
            IN [ok |-> FALSE, err |-> rest[i].t.err, refs |-> <<>>]
       ELSE [ok |-> TRUE, err |-> "",
             refs |-> << [df |-> series.df, on |-> <<"series_id">>] >>
                      \o [i \in DOMAIN rest |-> [df |-> rest[i].t.df, on |-> rest[i].on]]]

\* what the run holds of series and of the tables kept beside it
RefsResult(series, rest) ==
  CHOOSE r \in {RefsOf(s, t) : s \in {series}, t \in {rest}} : TRUE

bls_ce_references(disk) ==
  LET s0 == LoadSeries(disk, "ce.series",
                       StrOver({"supersector_code", "data_type_code", "industry_code",
                                "seasonal"})
                       @@ [c \in {"begin_year", "end_year"} |-> "int"])
      s1 == JoinRef(s0, LoadRef(disk, "ce.datatype",
                                StrOver({"data_type_code", "data_type_text"}), <<>>),
                    "data_type_code")
      s2 == JoinRef(s1, LoadRef(disk, "ce.industry",
                                StrOver({"industry_code", "naics_code", "publishing_status",
                                         "industry_name", "display_level", "selectable",
                                         "sort_sequence"}), <<>>),
                    "industry_code")
      s3 == JoinRef(s2, LoadRef(disk, "ce.seasonal",
                                StrOver({"industry_code", "seasonal_text"}),
                                <<"seasonal", "season_text">>),
                    "seasonal")
      s4 == JoinRef(s3, LoadRef(disk, "ce.supersector",
                                StrOver({"supersector_code", "supersector_name"}), <<>>),
                    "supersector_code")
      \* header=None, names=[...]: the names are given, not read
      period == LoadRef(disk, "ce.period", <<>>, <<>>)
  IN RefsResult(s4, << [t |-> period, on |-> <<"period">>] >>)

bls_sm_references(disk) ==
  LET s0 == LoadSeries(disk, "sm.series",
                       StrOver({"state_code", "area_code", "supersector_code",
                                "industry_code", "data_type_code", "footnote_codes"}))
      s1 == JoinRef(s0, LoadRef(disk, "sm.area", StrOver({"area_code", "area_name"}), <<>>),
                    "area_code")
      s2 == JoinRef(s1, LoadRef(disk, "sm.supersector", StrOver({"supersector_code"}), <<>>),
                    "supersector_code")
      s3 == JoinRef(s2, LoadRef(disk, "sm.data_type", StrOver({"data_type_code"}), <<>>),
                    "data_type_code")
      s4 == JoinRef(s3, LoadRef(disk, "sm.industry", StrOver({"industry_code"}), <<>>),
                    "industry_code")
      s5 == JoinRef(s4, LoadRef(disk, "sm.state", StrOver({"state_code"}), <<>>),
                    "state_code")
  IN RefsResult(s5, <<>>)

\* bls_cew_consolidate reads no reference table
References(d, sc) ==
  CASE d = "bls_ce" -> bls_ce_references(CeDisk(sc))
    [] d = "bls_sm" -> bls_sm_references(SmDisk(sc))
    [] OTHER -> [ok |-> TRUE, err |-> "", refs |-> <<>>]

\* chunk = pd.merge(chunk, ref, how='left', on=key) for each reference table
RECURSIVE Enrich(_, _)
Enrich(df, rs) ==
  IF rs = <<>> THEN Ok(df)
  ELSE CHOOSE e \in {IF m.ok THEN Enrich(m.df, Tail(rs)) ELSE m :
                       m \in {Merge(df, Head(rs).df, Head(rs).on)}} : TRUE

(***************************************************************************)
(* epa_ucmr_consolidate reads its four tables whole, out of two archives.  *)
(* Its scenarios:                                                          *)
(*   ok          every facility and water system is listed once            *)
(*   dup         a water system has two zip codes                          *)
(*   ref_nokey   UCMR3_ZipCodes.txt lacks the column PWSID                 *)
(*   ref_missing the UCMR2 archive is not there                            *)
(***************************************************************************)
Ucmr3Cols == <<"PWSID", "FacilityID", "SamplePointID", "CollectionDate",
               "SampleEventCode", "MRL">>
Ucmr2Cols == <<"PWSID", "FacilityID", "SamplePointID", "CollectionDate",
               "SampleEventCode", "DisinfectantType", "MRL">>

Ucmr3Rows == { <<"CA01", "F1", "SP1", "D1", "SE1", "0.125">>,
               <<"CA02", "F1", "SP1", "D1", "SE1", "1.5">> }
Ucmr2Rows == { <<"CA01", "F1", "SP1", "D0", "SE1", "CLM", "1.5">>,
               <<"CA03", "F2", "SP1", "D0", "SE2", "", "2.25">> }

UcmrDisk(sc) ==
  [f \in {"UCMR3_DRT.txt", "UCMR3_ZipCodes.txt"} |->
     CASE f = "UCMR3_DRT.txt" ->
            Raw(<<"PWSID", "FacilityID", "SamplePointID", "SampleEventCode",
                  "CollectionDate", "Disinfectant Type">>,
                << <<"CA01", "F1", "SP1", "SE1", "D1", "CLM">> >>)
       [] f = "UCMR3_ZipCodes.txt" ->
            Raw(<<IF sc = "ref_nokey" THEN "PWS" ELSE "PWSID", "ZIPCODE">>,
                IF sc = "dup"
                THEN << <<"CA01", "90001">>, <<"CA02", "90002">>, <<"CA01", "90003">> >>
                ELSE << <<"CA01", "90001">>, <<"CA02", "90002">> >>)]

UcmrOver ==
  StrOver({"PWSID", "FacilityID", "SamplePointID", "CollectionDate", "SampleEventCode",
           "DisinfectantType", "Disinfectant Type", "ZIPCODE"})
  @@ [c \in {"MRL"} |-> "float"]

(***************************************************************************)
(* all3.append(all2, ignore_index=True): the rows of a, then those of b,   *)
(* over the columns of either; a cell of a column its table lacks is       *)
(* missing.  (pandas versions differ on the order of the columns when the  *)
(* two tables have different ones; a's, then b's others, is taken here.)   *)
(***************************************************************************)
AppendValues(a, b) ==
  LET New(i) == b.cols[i] \notin ColSet(a)
      extra == SelectSeq(Indices(Len(b.cols)), New)
      cols == a.cols \o [p \in DOMAIN extra |-> b.cols[extra[p]]]
      Cell(t, row, c) == IF HasCol(t, c) THEN row[Pos(t, c)] ELSE NaN
      Type(c) ==
        IF HasCol(a, c) /\ HasCol(b, c)
        THEN (IF a.dtype[Pos(a, c)] = b.dtype[Pos(b, c)] THEN a.dtype[Pos(a, c)]
              ELSE "object")
        ELSE IF HasCol(a, c) THEN UpDtype(a.dtype[Pos(a, c)])
        ELSE UpDtype(b.dtype[Pos(b, c)])
  IN [cols |-> cols,
      dtype |-> [i \in DOMAIN cols |-> Type(cols[i])],
      rows |-> [r \in DOMAIN a.rows |->
                  [i \in DOMAIN cols |-> Cell(a, a.rows[r], cols[i])]]
               \o [r \in DOMAIN b.rows |->
                     [i \in DOMAIN cols |-> Cell(b, b.rows[r], cols[i])]],
      src |-> a.src \o b.src]

\* all3.append(all2, ignore_index=True), of the values of a and b
AppendFrames(a, b) ==
  CHOOSE t \in {AppendValues(x, y) : x \in {a}, y \in {b}} : TRUE

\* the frame 'all' of epa_ucmr_consolidate, from the two occurrence tables
epa_ucmr_all(sc, rows3, rows2) ==
  IF sc = "ref_missing" THEN Err("FileNotFoundError")
  ELSE LET disk == UcmrDisk(sc)
           all3 == ReadTable(Raw(Ucmr3Cols, rows3), UcmrOver, 1)
           drt == ReadTable(disk["UCMR3_DRT.txt"], UcmrOver, 0)
           m3 == JoinRefOn(all3, drt,
                           <<"PWSID", "FacilityID", "SamplePointID", "CollectionDate">>)
           zipcodes == ReadTable(disk["UCMR3_ZipCodes.txt"], UcmrOver, 0)
           z3 == JoinRefOn(m3, zipcodes, <<"PWSID">>)
           all2 == ReadTable(Raw(Ucmr2Cols, rows2), UcmrOver, 2)
           z2 == JoinRefOn(IF z3.ok THEN all2 ELSE z3, zipcodes, <<"PWSID">>)
       IN IF z2.ok THEN Ok(AppendFrames(z3.df, z2.df)) ELSE z2

(***************************************************************************)
(* The fact data.  A run's fact rows are not fixed beforehand: each read   *)
(* of the loader yields a fragment of rows taken from FactRows, and        *)
(* readLog records the fragments as they were read.                        *)
(***************************************************************************)
BlsFactCols == <<"series_id", "year", "period", "value", "footnote_codes">>

\* pd.read_csv names a repeated header 'name' 'name.1': the older archives
\* head their last column 'oty_taxable_qtrly_wages_chg' a second time
CewCols(variant) ==
  <<"area_fips", "qtr", "oty_taxable_qtrly_wages_chg",
    IF variant = "legacy" THEN "oty_taxable_qtrly_wages_chg.1"
    ELSE "oty_taxable_qtrly_wages_pct">>

Variants(d) == IF d = "bls_cew" THEN {"legacy", "fixed"} ELSE {"fixed"}

FactCols(d, variant) == IF d = "bls_cew" THEN CewCols(variant) ELSE BlsFactCols

FactRows(d) ==
  IF d = "bls_cew"
  THEN { <<"US000", "1", "12", "1.5">>,
         <<"01000", "1", "12", "0.125">>,
         <<"US000", "1", "N/A", "1.5">> }
  ELSE { <<"S1", "12", "M01", "1.5", "">>,
         <<"S2", "2017", "M02", "0.125", "">>,
         <<"S1", "12", "M13", "-", "">>,
         <<"S1", "", "M01", "2.25", "">> }

Datasets == {"bls_cew", "bls_ce", "bls_sm", "epa_ucmr"}

\* data.csv before the run: absent, or the output of an earlier run
OldOutput ==
  << [kind |-> "header", cells |-> <<"series_id", "value">>, src |-> <<0, 0>>],
     [kind |-> "row", cells |-> <<"S0", "1.00">>, src |-> <<0, 1>>] >>

VARIABLES
  ds,         \* the dataset consolidated
  scen,       \* the scenario its download directory is in
  pc,         \* where the run is
  err,        \* the exception that ended the run, "" if none
  refs,       \* the reference tables held, each with its join key
  file,       \* the lines of data.csv
  fileExists, \* whether data.csv exists
  initFile,   \* the lines of data.csv when the run started
  fh,         \* the handle f: "none", "open" or "closed"
  opens,      \* how many times data.csv was opened
  header,     \* the flag header
  chunk,      \* the fragment in hand
  reader,     \* the chunk reader: [st, variant]
  members,    \* fact files (archive members) opened so far
  readLog,    \* the fragments read, as raw tables
  wrote,      \* the row counts of the fragments to_csv has written
  before,     \* the frame convert_dtypes was last called with
  call,       \* the function called on its own, "" when none is
  arg,        \* its argument
  ret         \* what it returned

vars == <<ds, scen, pc, err, refs, file, fileExists, initFile, fh, opens, header,
          chunk, reader, members, readLog, wrote, before, call, arg, ret>>

RowsRead == SumSeq([i \in DOMAIN readLog |-> Len(readLog[i].rows)])
Frag == Len(readLog)
Dtypes == get_bls_dtypes(Schema(ds))

Init ==
  /\ ds \in Datasets
  /\ scen \in Scenarios(ds)
  /\ pc = "start"
  /\ err = ""
  /\ refs = <<>>
  /\ \/ file = <<>> /\ fileExists = FALSE
     \/ file = OldOutput /\ fileExists = TRUE
  /\ initFile = file
  /\ fh = "none"
  /\ opens = 0
  /\ header = TRUE
  /\ chunk = EmptyTable
  /\ reader = [st |-> "none", variant |-> "fixed"]
  /\ members = 0
  /\ readLog = <<>>
  /\ wrote = <<>>
  /\ before = EmptyTable
  /\ call = "" /\ arg = <<>> /\ ret = <<>>

\* an exception handled by going on with the next fragment
FailAndContinue(e) ==
  /\ pc' = "next"
  /\ err' = e
  /\ fh' = fh

\* an exception leaves the function; the with statement closes f on the way
Fail(e) ==
  /\ pc' = "failed"
  /\ err' = e
  /\ fh' = IF fh = "open" THEN "closed" ELSE fh

\* check_directory_consolidate: sys.exit(1) unless the directory is there
CheckDirectory ==
  /\ pc = "start"
  /\ \E present \in BOOLEAN :
       IF present
       THEN pc' = (IF ds = "epa_ucmr" THEN "load_all" ELSE "refs") /\ UNCHANGED <<err, fh>>
       ELSE Fail("SystemExit")
  /\ UNCHANGED <<call, arg, ret, ds, scen, refs, file, fileExists, initFile, opens, header, chunk,
                 reader, members, readLog, wrote, before>>

\* the reference tables are read and joined; header = True; dtypes
LoadReferences ==
  /\ pc = "refs"
  /\ \E r \in {References(ds, scen)} :
       IF r.ok THEN refs' = r.refs /\ pc' = "open" /\ UNCHANGED <<err, fh>>
       ELSE Fail(r.err) /\ UNCHANGED refs
  /\ header' = TRUE
  /\ UNCHANGED <<call, arg, ret, ds, scen, file, fileExists, initFile, opens, chunk, reader, members,
                 readLog, wrote, before>>

\* what opening data.csv in mode 'w' leaves of its content
OpenTruncate(lines) == <<>>

\* what opening data.csv in mode 'a' leaves of its content
OpenAppend(lines) == lines

\* with csvfile.open('a') as f: the file is created when it is not there
OpenOutput ==
  /\ pc = "open"
  /\ \E opened \in BOOLEAN :
       IF opened
       THEN /\ fh' = "open"
            /\ opens' = opens + 1
            /\ fileExists' = TRUE
            /\ file' = OpenAppend(file)
            /\ pc' = (IF ds = "epa_ucmr" THEN "write_all" ELSE "member")
            /\ UNCHANGED err
       ELSE Fail("PermissionError") /\ UNCHANGED <<opens, fileExists, file>>
  /\ UNCHANGED <<call, arg, ret, ds, scen, refs, initFile, header, chunk, reader, members, readLog, wrote,
                 before>>

\* the function returns with f left open, as after open() without with
FinishLeavesOpen ==
  /\ pc' = "done"
  /\ fh' = fh
  /\ UNCHANGED err

\* the loops are over: the with statement closes f and the function returns
Finish ==
  /\ pc' = "done"
  /\ fh' = "closed"
  /\ UNCHANGED err

(***************************************************************************)
(* The next fact file.  bls_ce and bls_sm read one (pd.read_table(...,     *)
(* chunksize=10000) makes its reader); bls_cew walks the archives of the   *)
(* directory and, in each, the members named '...all industries.csv'       *)
(* (the other members are passed over), making one reader per member.      *)
(***************************************************************************)
MoreMembers == IF ds = "bls_cew" THEN members < MaxMembers ELSE members = 0

NextMember ==
  /\ pc = "member"
  /\ \/ /\ MoreMembers
        /\ \E v \in Variants(ds) :
             /\ reader' = [st |-> "first", variant |-> v]
             /\ members' = members + 1
             /\ pc' = "next"
             /\ UNCHANGED <<err, fh>>
     \/ /\ MoreMembers
        /\ Fail("SourceReadError")
        /\ UNCHANGED <<reader, members>>
     \/ /\ ds = "bls_cew" \/ members = 1
        /\ Finish
        /\ UNCHANGED <<reader, members>>
  /\ UNCHANGED <<call, arg, ret, ds, scen, refs, file, fileExists, initFile, opens, header, chunk,
                 readLog, wrote, before>>

FirstStage(d) == IF d = "bls_cew" THEN "rename" ELSE "enrich"

(***************************************************************************)
(* The reader's next chunk: ChunkSize rows while the file has them, the    *)
(* rest in a last, shorter chunk; a file with a header and no row gives    *)
(* one chunk of no rows.  The dtypes of a chunk are inferred from its own  *)
(* cells.                                                                  *)
(***************************************************************************)
ReadChunk ==
  /\ pc = "next"
  /\ \/ /\ reader.st \in {"first", "full"}
        /\ \E n \in (IF reader.st = "first" THEN 0 ELSE 1)..Min(ChunkSize, MaxRows - RowsRead) :
           \E rows \in [1..n -> FactRows(ds)] :
           \E raw \in {Raw(FactCols(ds, reader.variant), rows)} :
                /\ chunk' = ReadTable(raw, <<>>, Frag + 1).df
                /\ readLog' = Append(readLog, raw)
                /\ reader' = [reader EXCEPT !.st = IF n = ChunkSize THEN "full" ELSE "short"]
                /\ pc' = FirstStage(ds)
                /\ UNCHANGED <<err, fh>>
     \/ /\ reader.st \in {"first", "full"}
        /\ Fail("SourceReadError")
        /\ UNCHANGED <<chunk, readLog, reader>>
     \/ /\ reader.st \in {"full", "short"}
        /\ pc' = "member"
        /\ reader' = [reader EXCEPT !.st = "none"]
        /\ UNCHANGED <<err, fh, chunk, readLog>>
  /\ UNCHANGED <<call, arg, ret, ds, scen, refs, file, fileExists, initFile, opens, header, members, wrote,
                 before>>

\* a stage that gives r moves on to pc = to, or fails with r's exception
Stage(r, to) ==
  IF r.ok THEN chunk' = r.df /\ pc' = to /\ UNCHANGED <<err, fh>>
  ELSE Fail(r.err) /\ UNCHANGED chunk

StageFrame ==
  UNCHANGED <<call, arg, ret, ds, scen, refs, file, fileExists, initFile, opens, header, reader, members,
              readLog, wrote>>

\* a loop body that assigns the joined frame to series, not to chunk
EnrichIntoSeries ==
  /\ pc = "enrich"
  /\ \E r \in {Merge(chunk, refs[1].df, refs[1].on)} :
       IF r.ok
       THEN /\ refs' = [refs EXCEPT ![1].df = r.df]
            /\ pc' = (IF ds = "bls_sm" THEN "numeric" ELSE "conv_i")
            /\ UNCHANGED <<err, fh, chunk>>
       ELSE Fail(r.err) /\ UNCHANGED <<chunk, refs>>
  /\ UNCHANGED <<call, arg, ret, ds, scen, file, fileExists, initFile, opens, header, reader, members,
                 readLog, wrote, before>>

\* bls_ce, bls_sm: the fragment is joined with the reference tables
EnrichChunk ==
  /\ pc = "enrich"
  /\ \E r \in {Enrich(chunk, refs)} :
       Stage(r, IF ds = "bls_sm" THEN "numeric" ELSE "conv_i")
  /\ StageFrame /\ UNCHANGED before

\* bls_cew: fix incorrectly named column
RenameChunk ==
  /\ pc = "rename"
  /\ Stage(Ok(Rename(chunk, "oty_taxable_qtrly_wages_chg.1", "oty_taxable_qtrly_wages_pct")),
           "conv_i")
  /\ StageFrame /\ UNCHANGED before

\* bls_sm: chunk.value = pd.to_numeric(chunk.value, errors='coerce')
NumericChunk ==
  /\ pc = "numeric"
  /\ \E r \in {ToNumeric(chunk, "value")} : Stage(r, "conv_i")
  /\ StageFrame /\ UNCHANGED before

\* convert_dtypes, its three lines
ConvertInts ==
  /\ pc = "conv_i"
  /\ \E ub \in UBOutcomes :
     \E r \in {ConvertGroup(chunk, Dtypes[1], "int8", ub)} : Stage(r, "conv_f")
  /\ before' = chunk
  /\ StageFrame

ConvertFlts ==
  /\ pc = "conv_f"
  /\ \E r \in {ConvertGroup(chunk, Dtypes[2], "float32", "wrap")} : Stage(r, "conv_s")
  /\ StageFrame /\ UNCHANGED before

ConvertStrs ==
  /\ pc = "conv_s"
  /\ \E r \in {ConvertGroup(chunk, Dtypes[3], "str", "wrap")} : Stage(r, "write")
  /\ StageFrame /\ UNCHANGED before

\* the flag of a loop that lacks the line header = False
HeaderStaysSet == TRUE

\* header = False, after a fragment was written
HeaderAfterWrite == FALSE

(***************************************************************************)
(* chunk.to_csv(f, header=header, ...); header = False.  A write that      *)
(* fails (OSError) may have put some of the fragment's lines in the file.  *)
(***************************************************************************)
WriteChunk ==
  /\ pc = "write"
  /\ \E lines \in {ToCsv(chunk, header, Frag)} :
        \/ /\ file' = file \o lines
           /\ header' = HeaderAfterWrite
           /\ wrote' = Append(wrote, Len(chunk.rows))
           /\ pc' = "next"
           /\ UNCHANGED <<err, fh>>
        \/ /\ \E k \in 0..(Len(lines) - 1) : file' = file \o SubSeq(lines, 1, k)
           /\ Fail("OSError")
           /\ UNCHANGED <<header, wrote>>
  /\ UNCHANGED <<call, arg, ret, ds, scen, refs, fileExists, initFile, opens, chunk, reader, members,
                 readLog, before>>

(***************************************************************************)
(* epa_ucmr_consolidate: the two occurrence tables are read whole, joined  *)
(* and put one after the other; then data.csv is opened and the result     *)
(* written in one to_csv, with its header.                                 *)
(***************************************************************************)
\* the tables read inside the with statement that opens data.csv
UcmrLoadAfterOpen ==
  /\ pc = "load_all"
  /\ fileExists' = TRUE /\ opens' = opens + 1
  /\ \E n3 \in 0..MaxRows : \E n2 \in 0..(MaxRows - n3) :
     \E rows3 \in [1..n3 -> Ucmr3Rows] : \E rows2 \in [1..n2 -> Ucmr2Rows] :
     \E r \in {epa_ucmr_all(scen, rows3, rows2)} :
       IF r.ok
       THEN /\ chunk' = r.df /\ pc' = "write_all" /\ fh' = "open" /\ UNCHANGED err
            /\ readLog' = << Raw(Ucmr3Cols, rows3), Raw(Ucmr2Cols, rows2) >>
       ELSE /\ pc' = "failed" /\ err' = r.err /\ fh' = "closed"
            /\ UNCHANGED <<chunk, readLog>>
  /\ UNCHANGED <<call, arg, ret, ds, scen, refs, file, initFile, header, reader, members,
                 wrote, before>>

UcmrLoad ==
  /\ pc = "load_all"
  /\ \E n3 \in 0..MaxRows : \E n2 \in 0..(MaxRows - n3) :
     \E rows3 \in [1..n3 -> Ucmr3Rows] : \E rows2 \in [1..n2 -> Ucmr2Rows] :
     \E r \in {epa_ucmr_all(scen, rows3, rows2)} :
       /\ Stage(r, "open")
       /\ readLog' = IF r.ok THEN << Raw(Ucmr3Cols, rows3), Raw(Ucmr2Cols, rows2) >>
                     ELSE readLog
  /\ UNCHANGED <<call, arg, ret, ds, scen, refs, file, fileExists, initFile, opens, header, reader, members,
                 wrote, before>>

UcmrWrite ==
  /\ pc = "write_all"
  /\ \E lines \in {ToCsv(chunk, TRUE, 1)} :
        \/ /\ file' = file \o lines
           /\ wrote' = Append(wrote, Len(chunk.rows))
           /\ Finish
        \/ /\ \E k \in 0..(Len(lines) - 1) : file' = file \o SubSeq(lines, 1, k)
           /\ Fail("OSError")
           /\ UNCHANGED wrote
  /\ UNCHANGED <<call, arg, ret, ds, scen, refs, fileExists, initFile, opens, header, chunk, reader,
                 members, readLog, before>>

Next ==
  \/ UcmrLoad
  \/ UcmrWrite
  \/ CheckDirectory
  \/ LoadReferences
  \/ OpenOutput
  \/ NextMember
  \/ ReadChunk
  \/ EnrichChunk
  \/ RenameChunk
  \/ NumericChunk
  \/ ConvertInts
  \/ ConvertFlts
  \/ ConvertStrs
  \/ WriteChunk

Spec == Init /\ [][Next]_vars

\* the code runs on: nothing suspends a run that can take a step
FairSpec == Spec /\ WF_vars(Next)

(***************************************************************************)
(* The helper functions and the renaming, applied on their own to an       *)
(* argument drawn from Schemas or CewFragments.  No consolidation runs     *)
(* meanwhile.                                                              *)
(***************************************************************************)
run == <<ds, scen, pc, err, refs, file, fileExists, initFile, fh, opens, header,
         chunk, reader, members, readLog, wrote, before>>

(***************************************************************************)
(* The fragments the renaming of bls_cew_consolidate is applied to on its  *)
(* own: what read_csv gives for a header of at most MaxCols of these       *)
(* names, in every order, and no row or one.                               *)
(***************************************************************************)
OldName == "oty_taxable_qtrly_wages_chg.1"
NewName == "oty_taxable_qtrly_wages_pct"

CewNames == {"qtr", "oty_taxable_qtrly_wages_chg", OldName, NewName}

CewTexts == <<"1.5", "0.125", "2.25", "12", "1">>

CewHeaders ==
  UNION { {h \in [1..n -> CewNames] : \A i, j \in 1..n : i # j => h[i] # h[j]} :
            n \in 1..Min(MaxCols, Len(CewTexts)) }

CewFragments ==
  { ReadTable(Raw(h, [r \in 1..n |-> [i \in DOMAIN h |-> CewTexts[i]]]), <<>>, 1).df :
      h \in CewHeaders, n \in {0, 1} }

NoRun ==
  /\ ds = "bls_cew" /\ scen = "ok" /\ pc = "start" /\ err = "" /\ refs = <<>>
  /\ file = <<>> /\ fileExists = FALSE /\ initFile = <<>> /\ fh = "none" /\ opens = 0
  /\ header = TRUE /\ chunk = EmptyTable
  /\ reader = [st |-> "none", variant |-> "fixed"]
  /\ members = 0 /\ readLog = <<>> /\ wrote = <<>> /\ before = EmptyTable

HelperInit ==
  /\ NoRun
  /\ call = ""
  /\ \/ \E schema \in Schemas : arg = [dtype |-> schema]
     \/ arg \in CewFragments
  /\ ret = <<>>

GetDtypes ==
  /\ call = "" /\ "cols" \notin DOMAIN arg
  /\ call' = "get_dtypes"
  /\ ret' = get_dtypes(arg.dtype)
  /\ UNCHANGED <<arg, run>>

GetBlsDtypes ==
  /\ call = "" /\ "cols" \notin DOMAIN arg
  /\ call' = "get_bls_dtypes"
  /\ ret' = get_bls_dtypes(arg.dtype)
  /\ UNCHANGED <<arg, run>>

\* fix incorrectly named column: the try statement of bls_cew_consolidate
FixColumn ==
  /\ call = "" /\ "cols" \in DOMAIN arg
  /\ call' = "rename"
  /\ ret' = Rename(arg, OldName, NewName)
  /\ UNCHANGED <<arg, run>>

\* the same statement, applied to what it gave
FixColumnAgain ==
  /\ call = "rename"
  /\ call' = "rename twice"
  /\ ret' = Rename(ret, OldName, NewName)
  /\ UNCHANGED <<arg, run>>

HelperNext ==
  \/ GetDtypes
  \/ GetBlsDtypes
  \/ FixColumn
  \/ FixColumnAgain

HelperSpec == HelperInit /\ [][HelperNext]_vars

(***************************************************************************)
(* What the properties below speak of.                                     *)
(***************************************************************************)
Streaming == ds \in {"bls_cew", "bls_ce", "bls_sm"}
Enriched == ds \in {"bls_ce", "bls_sm"}

IsPrefix(a, b) == Len(a) <= Len(b) /\ SubSeq(b, 1, Len(a)) = a

\* what the run has put in data.csv
Appended == SubSeq(file, Len(initFile) + 1, Len(file))

HeaderLines(lines) == {i \in DOMAIN lines : lines[i].kind = "header"}

RowLines(lines) ==
  LET IsRow(l) == l.kind = "row"
  IN SelectSeq(lines, IsRow)

OutRows == RowLines(Appended)

\* the rows <<fragment, row>> of the first n fragments read
FragRows(n) == UNION {{<<f, r>> : r \in 1..Len(readLog[f].rows)} : f \in 1..n}

LexLeq(a, b) == a[1] < b[1] \/ (a[1] = b[1] /\ a[2] <= b[2])

\* the files a run joins its fragments with, each with its key columns
JoinedTables(d, sc) ==
  CASE d = "bls_ce" ->
         LET k == CeDisk(sc)
         IN { <<k["ce.series"], <<"series_id">>>>,
              <<k["ce.datatype"], <<"data_type_code">>>>,
              <<k["ce.industry"], <<"industry_code">>>>,
              <<k["ce.seasonal"], <<"seasonal_code">>>>,
              <<k["ce.supersector"], <<"supersector_code">>>>,
              <<k["ce.period"], <<"period">>>> }
    [] d = "bls_sm" ->
         LET k == SmDisk(sc)
         IN { <<k["sm.series"], <<"series_id">>>>,
              <<k["sm.area"], <<"area_code">>>>,
              <<k["sm.supersector"], <<"supersector_code">>>>,
              <<k["sm.data_type"], <<"data_type_code">>>>,
              <<k["sm.industry"], <<"industry_code">>>>,
              <<k["sm.state"], <<"state_code">>>> }
    [] d = "epa_ucmr" ->
         LET k == UcmrDisk(sc)
         IN { <<k["UCMR3_DRT.txt"],
                <<"PWSID", "FacilityID", "SamplePointID", "CollectionDate">>>>,
              <<k["UCMR3_ZipCodes.txt"], <<"PWSID">>>> }
    [] OTHER -> {}

\* raw has the columns keys and no two rows of it agree on all of them
KeysUnique(raw, keys) ==
  LET P(k) == CHOOSE p \in DOMAIN raw.cols : raw.cols[p] = k
  IN /\ raw.exists
     /\ Range(keys) \subseteq Range(raw.cols)
     /\ \A i, j \in DOMAIN raw.rows :
          (\A k \in Range(keys) : raw.rows[i][P(k)] = raw.rows[j][P(k)]) => i = j

UniqueKeys == \A t \in JoinedTables(ds, scen) : KeysUnique(t[1], t[2])

(***************************************************************************)
(* C1  Header once.  In a streaming run the header line is written with    *)
(* the first fragment appended and with no other: what the run has put in  *)
(* data.csv holds at most one header line, its first line; while the run   *)
(* has not failed it is that line and one row line for each row of each    *)
(* fragment written; at the end every fragment read has been written; and  *)
(* with unique reference keys the rows written for a fragment are as many  *)
(* as the rows read for it.  When data.csv was absent or empty before the  *)
(* run, that header line is the one header line of the file, at its top.   *)
(***************************************************************************)
HeaderOnce ==
  Streaming =>
    /\ Cardinality(HeaderLines(Appended)) <= 1
    /\ wrote # <<>> => Len(Appended) >= 1 /\ Appended[1].kind = "header"
    /\ pc # "failed" =>
         Len(Appended) = (IF wrote = <<>> THEN 0 ELSE 1) + SumSeq(wrote)
    /\ pc = "done" => Len(wrote) = Len(readLog)
    /\ UniqueKeys => \A f \in DOMAIN wrote : wrote[f] = Len(readLog[f].rows)
    /\ initFile = <<>> =>
         /\ Cardinality(HeaderLines(file)) <= 1
         /\ wrote # <<>> => file[1].kind = "header"

\* a bls_cew run over two archive members has ended, three fragments written
\* to a data.csv that was not there before
HeaderOnceWitness ==
  /\ ds = "bls_cew" /\ pc = "done" /\ members = 2 /\ initFile = <<>>
  /\ Len(wrote) >= 3 /\ RowsRead >= 3
  /\ Len(Appended) = 1 + RowsRead

(***************************************************************************)
(* C2  Order preservation.  The row lines the run has put in data.csv are  *)
(* in the order the rows were read: fragment after fragment and, within a  *)
(* fragment, row after row.  While a streaming run has not failed they are *)
(* the rows of the fragments written, none left out, each once when the    *)
(* reference keys are unique, and each bls_ce or bls_sm line starts with   *)
(* the series_id of the row it was read as.                                *)
(***************************************************************************)
OrderPreserved ==
  LET out == OutRows
  IN /\ \A i \in 1..(Len(out) - 1) : LexLeq(out[i].src, out[i + 1].src)
     /\ (Streaming /\ pc # "failed") =>
          /\ {out[i].src : i \in DOMAIN out} = FragRows(Len(wrote))
          /\ UniqueKeys => Len(out) = Cardinality(FragRows(Len(wrote)))
          /\ Enriched =>
               \A i \in DOMAIN out :
                 out[i].cells[1] = readLog[out[i].src[1]].rows[out[i].src[2]][1]

\* a bls_sm run has ended with two fragments of two rows written, the first
\* with the series in another order than sm.series has them
OrderPreservedWitness ==
  /\ ds = "bls_sm" /\ scen = "ok" /\ pc = "done"
  /\ Len(wrote) = 2 /\ Len(OutRows) = 4
  /\ OutRows[1].cells[1] = "S2" /\ OutRows[2].cells[1] = "S1"

(***************************************************************************)
(* C3  Row-count preservation.  When no reference table has two rows with  *)
(* the same join key, the enriched fragment has the rows of the fragment   *)
(* read, one for one and in place, whether or not their keys are found;    *)
(* and the frame epa_ucmr_consolidate writes has as many rows as the two   *)
(* occurrence tables together.                                             *)
(***************************************************************************)
RowCountPreserved ==
  UniqueKeys =>
    /\ (Enriched /\ pc \in {"numeric", "conv_i", "conv_f", "conv_s", "write"}) =>
         /\ Len(chunk.rows) = Len(readLog[Frag].rows)
         /\ chunk.src = [r \in 1..Len(readLog[Frag].rows) |-> <<Frag, r>>]
    /\ (ds = "epa_ucmr" /\ pc \in {"open", "write_all", "done"}) =>
         Len(chunk.rows) = RowsRead

\* a bls_ce fragment of a row whose series is listed and a row whose series
\* is not has been enriched
RowCountWitness ==
  /\ ds = "bls_ce" /\ scen = "partial" /\ pc = "conv_i"
  /\ Len(chunk.rows) = 2
  /\ chunk.rows[1][Pos(chunk, "begin_year")] # NaN
  /\ chunk.rows[2][Pos(chunk, "begin_year")] = NaN

\* the cells of column c of frame t
CellsOf(t, c) == {t.rows[r][i] : r \in DOMAIN t.rows, i \in {j \in DOMAIN t.cols : t.cols[j] = c}}

\* the value of cell is one an 8-bit integer can hold
FitsInt8(cell) ==
  CASE cell.k = "int" -> cell.n \in -128..127
    [] cell.k = "flt" -> cell.n % 1000 = 0 /\ cell.n \in -128000..127000
    [] cell.k = "str" -> IsIntText(cell.s) /\ IntTexts[cell.s] \in -128..127
    [] OTHER -> FALSE

\* the value of cell is a number or missing, which a float can hold
FitsFloat(cell) == cell.k \in {"int", "flt", "nan"} \/ (cell.k = "str" /\ IsNumText(cell.s))

(***************************************************************************)
(* C4  Conversion errors are never silent.  Whenever convert_dtypes        *)
(* changes the integer columns and goes on, every value it found in them   *)
(* was one an 8-bit integer holds, and whenever it changes the float       *)
(* columns and goes on, every value it found in them was a number: a value *)
(* that does not fit makes the call fail.                                  *)
(***************************************************************************)
ConversionErrorsNeverSilent ==
  [][ /\ (pc = "conv_i" /\ pc' = "conv_f") =>
           \A c \in Range(Dtypes[1]) : \A cell \in CellsOf(chunk, c) : FitsInt8(cell)
      /\ (pc = "conv_f" /\ pc' = "conv_s") =>
           \A c \in Range(Dtypes[2]) : \A cell \in CellsOf(chunk, c) : FitsFloat(cell)
    ]_vars

\* a bls_ce fragment with the year 2017 has gone through convert_dtypes and
\* holds -31 for it
WrappedYearStored ==
  /\ ds = "bls_ce" /\ pc = "write"
  /\ \E r \in DOMAIN chunk.rows :
       /\ before.rows[r][Pos(before, "year")] = IntCell(2017)
       /\ chunk.rows[r][Pos(chunk, "year")] = IntCell(-31)

(***************************************************************************)
(* C5  Type invariant.  When convert_dtypes has returned, every column of  *)
(* the fragment that the schema declares an integer is of type int8 and    *)
(* holds 8-bit integers, every column declared a float is of type float32  *)
(* and holds floats, every column declared a string holds texts, and every *)
(* other column is as it was; the fragment has the columns and the number  *)
(* of rows it had.                                                         *)
(***************************************************************************)
TypeInvariant ==
  (Streaming /\ pc = "write") =>
    /\ chunk.cols = before.cols
    /\ Len(chunk.rows) = Len(before.rows)
    /\ \A i \in DOMAIN chunk.cols :
         LET c == chunk.cols[i]
             cells == {chunk.rows[r][i] : r \in DOMAIN chunk.rows}
         IN CASE c \in Range(Dtypes[1]) ->
                   /\ chunk.dtype[i] = "int8"
                   /\ \A x \in cells : x.k = "int" /\ x.n \in -128..127
              [] c \in Range(Dtypes[2]) ->
                   /\ chunk.dtype[i] = "float32"
                   /\ \A x \in cells : x.k \in {"flt", "nan"}
              [] c \in Range(Dtypes[3]) ->
                   /\ chunk.dtype[i] = "object"
                   /\ \A x \in cells : x.k = "str"
              [] OTHER ->
                   /\ chunk.dtype[i] = before.dtype[i]
                   /\ \A r \in DOMAIN chunk.rows : chunk.rows[r][i] = before.rows[r][i]

\* a bls_sm fragment of two rows has been converted: it has a column the
\* schema does not declare, an integer column read as int64 and a missing
\* text now the text nan
TypeInvariantWitness ==
  /\ ds = "bls_sm" /\ pc = "write" /\ Len(chunk.rows) = 2
  /\ HasCol(chunk, "supersector_name")
  /\ before.dtype[Pos(before, "year")] = "int64"
  /\ \E c \in Range(Dtypes[3]) : NaN \in CellsOf(before, c)

(***************************************************************************)
(* C6  Empty-group no-op.  A line of convert_dtypes whose group of column  *)
(* names is empty (the integers of bls_cew) leaves the fragment as it is   *)
(* and does not fail: the call goes on to its next line.                   *)
(***************************************************************************)
EmptyGroupNoOp ==
  [][ \A g \in 1..3 :
        LET at == <<"conv_i", "conv_f", "conv_s">>
            to == <<"conv_f", "conv_s", "write">>
        IN (pc = at[g] /\ Dtypes[g] = <<>>) =>
             (chunk' = chunk /\ pc' = to[g] /\ err' = err)
    ]_vars

\* bls_cew declares no integer column; the first line of convert_dtypes has
\* run on a fragment of two rows, which is as it was
EmptyGroupWitness ==
  /\ ds = "bls_cew" /\ Dtypes[1] = <<>>
  /\ pc = "conv_f" /\ Len(chunk.rows) = 2 /\ chunk = before

(***************************************************************************)
(* C7  No rollback on fragment failure.  A streaming run that meets an     *)
(* error ends failed with that error, and only so.  The step that fails    *)
(* reads no fragment and takes nothing away from data.csv (a failing write *)
(* may leave lines of its fragment behind), and no step follows it.  In    *)
(* the failed run data.csv holds, after what it held before the run, the   *)
(* header and the rows of every fragment written before the failing one;   *)
(* any line after them is of the failing fragment; no fragment after it    *)
(* was read.                                                               *)
(***************************************************************************)
NoRollbackOnFailure ==
  /\ [](Streaming =>
         /\ (err # "") = (pc = "failed")
         /\ pc = "failed" =>
              LET n == (IF wrote = <<>> THEN 0 ELSE 1) + SumSeq(wrote)
                  kept == SubSeq(Appended, 1, Min(n, Len(Appended)))
                  rest == SubSeq(Appended, n + 1, Len(Appended))
              IN /\ Len(Appended) >= n
                 /\ wrote # <<>> => kept[1].kind = "header"
                 /\ Len(RowLines(kept)) = SumSeq(wrote)
                 /\ {l.src : l \in Range(RowLines(kept))} = FragRows(Len(wrote))
                 /\ \A i \in DOMAIN rest : rest[i].src[1] = Len(wrote) + 1
                 /\ Len(readLog) \in {Len(wrote), Len(wrote) + 1}
                 /\ fh # "open")
  /\ [][Streaming =>
          /\ pc' = "failed" =>
               /\ IsPrefix(file, file')
               /\ pc # "write" => file' = file
               /\ readLog' = readLog /\ wrote' = wrote
          /\ pc = "failed" => UNCHANGED vars
       ]_vars

\* the second fragment of a bls_ce run failed in convert_dtypes; the first,
\* of two rows, is in data.csv under its header
NoRollbackWitness ==
  /\ ds = "bls_ce" /\ pc = "failed" /\ err = "ValueError"
  /\ Len(readLog) = 2 /\ wrote = <<2>>
  /\ Len(Appended) = 3 /\ Appended[1].kind = "header"

\* a reference file that is there has no row or lacks its join key
BadReferences ==
  \E t \in JoinedTables(ds, scen) :
    t[1].exists /\ (t[1].rows = <<>> \/ ~(Range(t[2]) \subseteq Range(t[1].cols)))

(***************************************************************************)
(* C8  Fail-fast reference validation.  A bls_ce or bls_sm run one of      *)
(* whose reference files is empty or lacks its join key gets no further    *)
(* than loading them: it fails there, with no fragment read and data.csv   *)
(* neither opened nor created nor written.                                 *)
(***************************************************************************)
FailFastReferenceValidation ==
  (Enriched /\ BadReferences /\ pc \notin {"start", "refs"}) =>
    /\ pc = "failed"
    /\ readLog = <<>>
    /\ opens = 0
    /\ file = initFile /\ fileExists = (initFile # <<>>)

\* a bls_ce run whose ce.datatype has no row has ended without an error,
\* its rows written with no data_type_text
EmptyReferenceRunCompletes ==
  /\ ds = "bls_ce" /\ scen = "empty_ref" /\ pc = "done" /\ err = ""
  /\ Len(OutRows) >= 1
  /\ \A i \in DOMAIN OutRows :
       \E p \in DOMAIN chunk.cols :
         chunk.cols[p] = "data_type_text" /\ OutRows[i].cells[p] = "nan"

(***************************************************************************)
(* C9  Append-only output.  No step of a run takes away or changes a line  *)
(* that data.csv holds, nor removes the file: what data.csv held when the  *)
(* run started stays the beginning of it, what the run writes comes after, *)
(* and a streaming run writes each fragment once, the rows of a fragment   *)
(* written being in the file as many times as to_csv wrote them.           *)
(***************************************************************************)
AppendOnly ==
  /\ [](/\ IsPrefix(initFile, file)
        /\ Streaming =>
             /\ Len(wrote) <= Len(readLog) /\ Len(readLog) <= Len(wrote) + 1
             /\ \A f \in DOMAIN wrote :
                  Cardinality({i \in DOMAIN OutRows : OutRows[i].src[1] = f}) = wrote[f])
  /\ [][IsPrefix(file, file') /\ (fileExists => fileExists')]_vars

\* a streaming run on a data.csv that held the output of an earlier run has
\* ended with two fragments written after it
AppendOnlyWitness ==
  /\ Streaming /\ initFile = OldOutput /\ pc = "done"
  /\ Len(wrote) = 2 /\ Len(file) = Len(OldOutput) + 1 + SumSeq(wrote)
  /\ SumSeq(wrote) >= 2

(***************************************************************************)
(* C10  Driver finalization.  A run comes to its end, done or failed, and  *)
(* takes no step after.  data.csv is opened at most once, and once in a    *)
(* run that ends done; the file changes only in a step taken with the      *)
(* handle open; the handle is closed when the run is done or failed and is *)
(* not opened again.  A streaming run is done only with its reader         *)
(* exhausted and every fragment read written.                              *)
(***************************************************************************)
DriverFinalization ==
  /\ <>(pc \in {"done", "failed"})
  /\ [](/\ opens <= 1
        /\ fh = "open" => opens = 1
        /\ pc = "failed" => fh # "open"
        /\ pc = "done" =>
             /\ fh = "closed" /\ opens = 1 /\ err = ""
             /\ Streaming => reader.st = "none" /\ Len(wrote) = Len(readLog))
  /\ [][/\ file' # file => fh = "open"
        /\ fh = "closed" => fh' = "closed"
        /\ pc \in {"done", "failed"} => UNCHANGED vars
       ]_vars

\* a bls_sm run has read and written two fragments and is done, the
\* handle opened once and closed
DriverFinalizationWitness ==
  /\ ds = "bls_sm" /\ pc = "done" /\ fh = "closed" /\ opens = 1
  /\ reader.st = "none" /\ Len(readLog) = 2 /\ Len(wrote) = 2

(***************************************************************************)
(* C11  Reference tables loaded once and not changed.  A run passes        *)
(* through the loading of its reference tables once, coming from its       *)
(* start, and with no fragment read yet; the tables it holds change in no  *)
(* other step; and each time a bls_ce or bls_sm fragment is about to be    *)
(* joined, the tables held are those the reference files gave, so the last *)
(* fragment is joined with what the first was joined with.                 *)
(***************************************************************************)
ReferencesLoadedOnce ==
  /\ [](/\ pc \in {"start", "refs"} => readLog = <<>> /\ refs = <<>>
        /\ (Enriched /\ pc = "enrich") =>
             refs # <<>> /\ refs = References(ds, scen).refs)
  /\ [][/\ pc' = "refs" => pc = "start"
        /\ refs' # refs => pc = "refs" /\ refs = <<>> /\ readLog = <<>>
       ]_vars

\* the second fragment of a bls_ce run is about to be joined with series and
\* period, the first having been joined and written
ReferencesLoadedOnceWitness ==
  /\ ds = "bls_ce" /\ pc = "enrich" /\ Len(readLog) = 2 /\ Len(wrote) = 1
  /\ Len(refs) = 2 /\ Len(refs[1].df.rows) = 2


(***************************************************************************)
(* C12. One fragment in flight, in every consolidation run (bls_cew,       *)
(* bls_ce, bls_sm and epa_ucmr alike): every piece of fact data the run    *)
(* has read is a fragment of at most ChunkSize rows, and a fragment is     *)
(* read only when every fragment read before it has been appended to       *)
(* data.csv, so that at most one fragment is read and not yet written and  *)
(* the whole fact table is never held.                                     *)
(* The three streaming functions keep to it (OneFragmentInFlightOf holds   *)
(* of each of them); epa_ucmr_consolidate reads UCMR3_All.txt and          *)
(* UCMR2_All.txt whole, with no chunksize, and holds both, and their       *)
(* concatenation, before data.csv is opened.                               *)
(***************************************************************************)
OneFragmentInFlightOf(d) ==
  ds = d =>
    /\ \A f \in DOMAIN readLog : Len(readLog[f].rows) <= ChunkSize
    /\ Len(readLog) <= Len(wrote) + 1
    /\ Len(chunk.rows) > 0 => Len(readLog) > 0

OneFragmentInFlight == \A d \in Datasets : OneFragmentInFlightOf(d)

\* both occurrence tables, MaxRows rows in all, held with data.csv not yet opened
WholeTablesHeld ==
  /\ ds = "epa_ucmr" /\ pc = "open" /\ opens = 0 /\ wrote = <<>>
  /\ Len(readLog) = 2 /\ RowsRead = MaxRows
  /\ Len(readLog[1].rows) > ChunkSize
  /\ Len(chunk.rows) = MaxRows


(***************************************************************************)
(* C13. get_dtypes and get_bls_dtypes partition the schema.  Called with   *)
(* a schema whose types are int, float and str, each returns three lists,  *)
(* of the int, the float and the str columns: every name in a list is      *)
(* declared with that list's type; every column of the schema is in the    *)
(* list of its type, once, and in no other list; the names of a list       *)
(* stand in the order the schema declares them; and a type no column has   *)
(* gives the empty list.                                                   *)
(***************************************************************************)
DeclaredAt(schema, name) == CHOOSE p \in DOMAIN schema : schema[p][1] = name

Occurrences(lists, name) ==
  {gi \in (DOMAIN lists) \X (1..MaxCols) :
     gi[2] \in DOMAIN lists[gi[1]] /\ lists[gi[1]][gi[2]] = name}

DtypesPartition ==
  call \in {"get_dtypes", "get_bls_dtypes"} =>
    LET schema == arg.dtype
    IN /\ DOMAIN ret = DOMAIN TypeTags
       /\ \A g \in DOMAIN ret : \A i \in DOMAIN ret[g] :
            \E p \in DOMAIN schema : schema[p] = <<ret[g][i], TypeTags[g]>>
       /\ \A p \in DOMAIN schema :
            /\ Cardinality(Occurrences(ret, schema[p][1])) = 1
            /\ \A gi \in Occurrences(ret, schema[p][1]) : TypeTags[gi[1]] = schema[p][2]
       /\ \A g, h \in DOMAIN ret : g # h => Range(ret[g]) \cap Range(ret[h]) = {}
       /\ SumSeq([g \in DOMAIN ret |-> Len(ret[g])]) = Len(schema)
       /\ \A g \in DOMAIN ret : \A i, j \in DOMAIN ret[g] :
            i < j => DeclaredAt(schema, ret[g][i]) < DeclaredAt(schema, ret[g][j])
       /\ \A g \in DOMAIN ret :
            (\A p \in DOMAIN schema : schema[p][2] # TypeTags[g]) => ret[g] = <<>>

\* a schema of a str, a float and a str column, and none of type int
DtypesPartitionWitness ==
  /\ call = "get_dtypes"
  /\ arg.dtype = << <<"series_id", "str">>, <<"value", "float">>, <<"period", "str">> >>
  /\ ret = << <<>>, <<"value">>, <<"series_id", "period">> >>


(***************************************************************************)
(* C14. Forgiving parse (bls_sm).                                          *)
(* The parse itself, ForgivingParse: the step that coerces the value       *)
(* column of a fragment never fails; it leaves the fragment's columns,     *)
(* its rows' order and number, and every cell of every other column as     *)
(* they were; in the value column a text that parses becomes the number    *)
(* it spells, a text that does not becomes missing in that row, and a      *)
(* cell that was a number or missing stays; the column is numeric after.   *)
(* The order, as the code has it (CoercedAfterJoin): the fragment is       *)
(* joined with the reference data as the loader gave it, value column      *)
(* uncoerced, and the coercion is applied to the joined fragment.          *)
(* The order, as stated (CoercedBeforeJoin): when the fragment is joined   *)
(* its value column has been coerced and is numeric.                       *)
(***************************************************************************)
IsNumeric(t, c) == HasCol(t, c) /\ t.dtype[Pos(t, c)] \in {"int64", "float64"}

ForgivingParse ==
  (ds = "bls_sm" /\ pc = "numeric") =>
    LET p == Pos(chunk, "value")
    IN /\ pc' = "conv_i" /\ err' = err
       /\ chunk'.cols = chunk.cols /\ chunk'.src = chunk.src
       /\ DOMAIN chunk'.rows = DOMAIN chunk.rows
       /\ \A i \in DOMAIN chunk.cols : i # p => chunk'.dtype[i] = chunk.dtype[i]
       /\ \A r \in DOMAIN chunk.rows :
            LET old == chunk.rows[r]
                new == chunk'.rows[r]
            IN /\ \A i \in DOMAIN chunk.cols : i # p => new[i] = old[i]
               /\ IF old[p].k = "str"
                  THEN IF IsNumText(old[p].s)
                       THEN /\ new[p].k \in {"int", "flt"}
                            /\ UpCell(new[p]) = FltCell(NumValue(old[p].s))
                       ELSE new[p] = NaN
                  ELSE UpCell(new[p]) = UpCell(old[p])
       /\ IsNumeric(chunk', "value")

CoercedAfterJoin ==
  /\ (ds = "bls_sm" /\ pc = "enrich") =>
       /\ chunk = ReadTable(readLog[Frag], <<>>, Frag).df
       /\ pc' \in {"numeric", "failed"}
  /\ (ds = "bls_sm" /\ pc = "numeric") =>
       /\ \A c \in ColSet(refs[1].df) \ {"footnote_codes"} : HasCol(chunk, c)
       /\ pc' = "conv_i"

CoercedBeforeJoin ==
  (ds = "bls_sm" /\ pc = "enrich" /\ pc' = "numeric") => IsNumeric(chunk, "value")

\* the forgiving parse, applied to the joined fragment
ForgivingParseAfterJoin == [][ForgivingParse /\ CoercedAfterJoin]_vars

\* the forgiving parse, applied before the join
ForgivingParseBeforeJoin == [][ForgivingParse /\ CoercedBeforeJoin]_vars

\* a joined bls_sm fragment after the coercion: the value '-' of one row is
\* missing, the value of the other row is the number read
ForgivingParseWitness ==
  /\ ds = "bls_sm" /\ pc = "conv_i" /\ HasCol(chunk, "area_name")
  /\ Len(chunk.rows) = 2 /\ Len(readLog[Frag].rows) = 2
  /\ \E r, q \in DOMAIN chunk.rows :
       /\ readLog[Frag].rows[r][4] = "-" /\ chunk.rows[r][Pos(chunk, "value")] = NaN
       /\ readLog[Frag].rows[q][4] = "1.5"
       /\ chunk.rows[q][Pos(chunk, "value")] = FltCell(1500)


(***************************************************************************)
(* C15. Rename-if-present (bls_cew).  Applied to a fragment that has the   *)
(* column 'oty_taxable_qtrly_wages_chg.1', the renaming gives the same     *)
(* fragment with that column named 'oty_taxable_qtrly_wages_pct', in its   *)
(* place and with its values; applied to a fragment without it, it gives   *)
(* the fragment unchanged and raises nothing; applied twice it gives what  *)
(* it gives applied once (RenamedIfPresent).                               *)
(* As stated, it never leaves two columns of one name (NoTwoColumns(TRUE)):*)
(* that fails for a fragment that has both columns.  As amended, it leaves *)
(* no two columns of one name when the fragment does not have both.        *)
(***************************************************************************)
Renamed == call \in {"rename", "rename twice"}

RenamedIfPresent ==
  /\ [](Renamed =>
         /\ DOMAIN ret = DOMAIN arg
         /\ ret.rows = arg.rows /\ ret.dtype = arg.dtype /\ ret.src = arg.src
         /\ DOMAIN ret.cols = DOMAIN arg.cols
         /\ \A i \in DOMAIN arg.cols :
              ret.cols[i] = IF arg.cols[i] = OldName THEN NewName ELSE arg.cols[i]
         /\ HasCol(arg, OldName) => HasCol(ret, NewName) /\ ~HasCol(ret, OldName)
         /\ ~HasCol(arg, OldName) => ret = arg)
  /\ [][call' = "rename twice" => call = "rename" /\ ret' = ret]_vars

NoTwoColumns(any) ==
  (Renamed /\ (any \/ ~(HasCol(arg, OldName) /\ HasCol(arg, NewName)))) =>
     \A i, j \in DOMAIN ret.cols : i # j => ret.cols[i] # ret.cols[j]

RenameIfPresent == RenamedIfPresent /\ []NoTwoColumns(FALSE)

RenameNeverDuplicates == RenamedIfPresent /\ []NoTwoColumns(TRUE)

\* the column was there, with a value, and has been renamed twice over
RenameIfPresentWitness ==
  /\ call = "rename twice"
  /\ arg.cols = <<"qtr", OldName>> /\ Len(arg.rows) = 1
  /\ ret.cols = <<"qtr", NewName>> /\ ret.rows[1][2] = FltCell(125)


(***************************************************************************)
(* C16. epa_ucmr_consolidate and data.csv.  The file is opened at most     *)
(* once and written by one to_csv, and only when both occurrence tables    *)
(* have been read, joined and put one after the other: until then, and     *)
(* for good when a load or a join fails, data.csv is as it was when the    *)
(* run started, not created if it was not there.  What the one write       *)
(* appends is one header line and the rows of the joined tables, every row *)
(* of UCMR3_All.txt before every row of UCMR2_All.txt, none left out.      *)
(***************************************************************************)
Untouched == file = initFile /\ fileExists = (initFile # <<>>)

LoadFailed == pc = "failed" /\ err \in {"KeyError", "FileNotFoundError", "ValueError"}

UcmrAllOrNothing ==
  /\ [](ds = "epa_ucmr" =>
         /\ opens <= 1 /\ Len(wrote) <= 1
         /\ opens = 0 => Untouched
         /\ LoadFailed => opens = 0 /\ Untouched /\ wrote = <<>>
         /\ opens = 1 => Len(readLog) = 2 /\ pc \in {"write_all", "done", "failed"}
         /\ wrote # <<>> =>
              /\ pc = "done"
              /\ Appended = ToCsv(chunk, TRUE, 1)
              /\ Cardinality(HeaderLines(Appended)) = 1 /\ Appended[1].kind = "header"
              /\ Len(OutRows) = wrote[1]
              /\ \A i, j \in DOMAIN OutRows : i < j => OutRows[i].src[1] <= OutRows[j].src[1]
              /\ FragRows(2) = {OutRows[i].src : i \in DOMAIN OutRows})
  /\ [][(ds = "epa_ucmr" /\ file' # file) => pc = "write_all" /\ wrote = <<>>]_vars

\* a finished run that wrote rows of both tables, those of UCMR3_All.txt first
UcmrAllOrNothingWitness ==
  /\ ds = "epa_ucmr" /\ pc = "done" /\ Len(wrote) = 1
  /\ Len(readLog[1].rows) = 2 /\ Len(readLog[2].rows) = 2
  /\ OutRows[1].src[1] = 1 /\ OutRows[Len(OutRows)].src[1] = 2

====
